---- MODULE Spec2Model ----
(***************************************************************************)
(* Model of the recurse splitter worker (src/src/job.ts, processJob).      *)
(*                                                                         *)
(* One record of the external versioned store is processed by several      *)
(* invocations of processJob.  Every operation of the store that           *)
(* processJob awaits is one step of the model, taken together with the     *)
(* synchronous code that runs when it resolves: the read of the entity     *)
(* (fetchTarget), the read of its tip (GET /entities/{id}/tip) and the     *)
(* conditional write (PUT /entities/{id}).  Invocations interleave at      *)
(* these steps and nowhere else.                                           *)
(*                                                                         *)
(* A string is a sequence of characters.  An optional property is a        *)
(* sequence of length 0 (absent) or 1 (present).                           *)
(***************************************************************************)
EXTENDS Integers, Sequences, FiniteSets, TLC

(* ------------------------------ bounds -------------------------------- *)
\* invocations of processJob that run concurrently
NumInv == 2
\* invocations started in one behaviour of Spec
MaxInvocations == 2
\* longest initial text of Spec
MaxTextLen == 27
\* largest recursion depth a caller supplies
MaxDepth == 1
\* modifications made by writers other than processJob
MaxLabel == 1
\* sequential driver: initial texts of length 10 * 2^k, k \in 1..MaxK
MaxK == 5
\* sequential driver: longest other initial text or segment
MaxSegLen == 23
\* sequential driver: most initial segments
MaxInitSegs == 2

(* --------------------------- program constants ------------------------ *)
MIN_SEGMENT_LENGTH == 10

(* ------------------------------ values -------------------------------- *)
None == << >>
Some(x) == << x >>
IsSome(o) == Len(o) = 1
Get(o) == o[1]

Alphabet == << "A", "B", "C" >>

\* the string of length n used as test data: "ABCABC..."
Str(n) == [i \in 1..n |-> Alphabet[((i - 1) % 3) + 1]]

\* an entry of segments that is not a string: a number.  The schema types
\* segments as string[], and nothing at run time enforces it.
NotAString == << "number" >>
IsString(v) == v # NotAString

\* v.length: the length of a string, undefined (None) for a number
Length(v) == IF IsString(v) THEN Some(Len(v)) ELSE None

\* n <= m and n > m of JavaScript: both false when n is undefined
LessEq(n, m) == IsSome(n) /\ Get(n) <= m
Greater(n, m) == IsSome(n) /\ Get(n) > m

RECURSIVE Pow2(_)
Pow2(k) == IF k = 0 THEN 1 ELSE 2 * Pow2(k - 1)

Inv == 1..NumInv

VARIABLES
    record,       \* the persisted properties of the target entity
    tip,          \* the store's current revision of the entity (its cid)
    pc,           \* where each invocation of processJob stands
    depth,        \* job.recurseDepth of each invocation
    target,       \* the properties each invocation fetched
    newSegments,  \* the segments each invocation computed
    tipSeen,      \* tip.cid as each invocation fetched it
    output,       \* how the invocation that ended last ended
    readTip,      \* history: the revision each invocation's fetchTarget saw
    applied,      \* history: expect_tip of every applied PUT of processJob
    invoked,      \* history: invocations started
    origin,       \* history: the properties the record began with
    ops,          \* history: the store operations of each running invocation
    lastOps       \* history: those of the invocation that ended last

vars == << record, tip, pc, depth, target, newSegments, tipSeen, output,
           readTip, applied, invoked, origin, ops, lastOps >>

locals == << depth, target, newSegments, tipSeen, readTip, ops >>

\* the operations of the store that processJob awaits (lines 29, 75, 85),
\* each with the cid of the revision it read or expected
FETCH == "fetchTarget"
TIP == "GET /entities/{id}/tip"
PUT == "PUT /entities/{id}"
Op(name, cid) == [ op |-> name, cid |-> cid ]
OpNames(done) == [ k \in 1..Len(done) |-> done[k].op ]

\* how an invocation ends: the Output it returns (lines 55, 111) or the
\* Error thrown out of processJob (lines 29, 80, 99); NoOutput before any
\* invocation has ended
NoOutput == "none"
DoneTrue == "done_true"
DoneFalse == "done_false"
FetchError == "fetchTarget failed"
TipError == "Failed to get entity tip"
ConflictError == "Failed to update entity: conflict"
UpdateError == "Failed to update entity"
Errors == { FetchError, TipError, ConflictError, UpdateError }

(* ----------------------- the record's properties ---------------------- *)
\* SplitterTargetProps: text, segments, split_count, last_split_depth and
\* one additional property (label)
Props(text, segments) ==
    [ text |-> text, segments |-> segments, split_count |-> None,
      last_split_depth |-> None, label |-> 0 ]

NoProps == Props(None, None)

(* --------------------------- pure functions --------------------------- *)
\* String.prototype.slice(from, to) for 0 <= from <= to <= length
Slice(s, from, to) == SubSeq(s, from + 1, to)

\* a wrong divisor at line 65
MidThird(n) == n \div 3

\* Math.ceil for Math.floor at line 65
MidCeil(n) == (n + 1) \div 2

\* Math.floor(n / 2)
Mid(n) == n \div 2

\* line 33 without its test of segments.length
WorkingKeepsEmpty(props) ==
    IF IsSome(props.segments)
    THEN Get(props.segments)
    ELSE LET text == IF IsSome(props.text) THEN Get(props.text) ELSE << >>
         IN  IF Len(text) # 0 THEN << text >> ELSE << >>

\* lines 32-36: the working sequence
Working(props) ==
    IF IsSome(props.segments) /\ Len(Get(props.segments)) # 0
    THEN Get(props.segments)
    ELSE LET text == IF IsSome(props.text) THEN Get(props.text) ELSE << >>
         IN  IF Len(text) # 0 THEN << text >> ELSE << >>

\* < for <= at line 45
AllDoneStrict(segments) ==
    \A k \in 1..Len(segments) :
        IsSome(Length(segments[k])) /\ Get(Length(segments[k])) < MIN_SEGMENT_LENGTH

\* line 45
AllDone(segments) ==
    \A k \in 1..Len(segments) :
        LessEq(Length(segments[k]), MIN_SEGMENT_LENGTH)

\* slice(mid + 1) for slice(mid) at line 66
SplitSegmentDrops(segment) ==
    IF Greater(Length(segment), MIN_SEGMENT_LENGTH)
    THEN << Slice(segment, 0, Mid(Len(segment))),
            Slice(segment, Mid(Len(segment)) + 1, Len(segment)) >>
    ELSE << segment >>

\* the halves of line 66 split once more while they are too long
SplitSegmentResplits(segment) ==
    IF Greater(Length(segment), MIN_SEGMENT_LENGTH)
    THEN LET mid == Mid(Len(segment))
             first == Slice(segment, 0, mid)
             second == Slice(segment, mid, Len(segment))
             again(h) == IF Len(h) > MIN_SEGMENT_LENGTH
                         THEN << Slice(h, 0, Mid(Len(h))),
                                 Slice(h, Mid(Len(h)), Len(h)) >>
                         ELSE << h >>
         IN  again(first) \o again(second)
    ELSE << segment >>

\* >= for > at line 45 carried into line 63 as > MIN_SEGMENT_LENGTH + 1:
\* a segment of length 11 is found too long and is not split
SplitSegmentLenient(segment) ==
    IF Greater(Length(segment), MIN_SEGMENT_LENGTH + 1)
    THEN << Slice(segment, 0, Mid(Len(segment))),
            Slice(segment, Mid(Len(segment)), Len(segment)) >>
    ELSE << segment >>

\* the two halves pushed in the wrong order at line 66
SplitSegmentSwaps(segment) ==
    IF Greater(Length(segment), MIN_SEGMENT_LENGTH)
    THEN << Slice(segment, Mid(Len(segment)), Len(segment)),
            Slice(segment, 0, Mid(Len(segment))) >>
    ELSE << segment >>

\* lines 63-71: what one segment contributes to newSegments
SplitSegment(segment) ==
    IF Greater(Length(segment), MIN_SEGMENT_LENGTH)
    THEN << Slice(segment, 0, Mid(Len(segment))),
            Slice(segment, Mid(Len(segment)), Len(segment)) >>
    ELSE << segment >>

\* lines 59-72: the loop over the segments
RECURSIVE SplitRound(_)
SplitRound(segments) ==
    IF segments = << >> THEN << >>
    ELSE SplitSegment(Head(segments)) \o SplitRound(Tail(segments))

\* lines 60, 67: splitsMade
RECURSIVE SplitsMade(_)
SplitsMade(segments) ==
    IF segments = << >> THEN 0
    ELSE (IF Greater(Length(Head(segments)), MIN_SEGMENT_LENGTH) THEN 1 ELSE 0)
         + SplitsMade(Tail(segments))

\* line 83 without its parentheses: split_count ?? (0 + 1)
NextSplitCountUnparenthesised(props) ==
    IF IsSome(props.split_count) THEN Get(props.split_count) ELSE 0 + 1

\* line 83
NextSplitCount(props) ==
    (IF IsSome(props.split_count) THEN Get(props.split_count) ELSE 0) + 1

\* last_split_depth: target.properties.last_split_depth ?? currentDepth
\* at line 93
UpdatedKeepsDepth(props, segs, d) ==
    [ props EXCEPT !.segments = Some(segs),
                   !.split_count = Some(NextSplitCount(props)),
                   !.last_split_depth =
                       IF IsSome(props.last_split_depth) THEN @ ELSE Some(d) ]

\* last_split_depth: splitCount at line 93
UpdatedStampsCount(props, segs, d) ==
    [ props EXCEPT !.segments = Some(segs),
                   !.split_count = Some(NextSplitCount(props)),
                   !.last_split_depth = Some(NextSplitCount(props)) ]

\* split_count: currentDepth + 1 at line 92
UpdatedCountsFromDepth(props, segs, d) ==
    [ props EXCEPT !.segments = Some(segs),
                   !.split_count = Some(d + 1),
                   !.last_split_depth = Some(d) ]

\* line 90 left out: the PUT body without ...target.properties
UpdatedWithoutSpread(props, segs, d) ==
    [ Props(None, Some(segs)) EXCEPT
          !.split_count = Some(NextSplitCount(props)),
          !.last_split_depth = Some(d) ]

\* lines 89-94: the properties of the PUT body
Updated(props, segs, d) ==
    [ props EXCEPT !.segments = Some(segs),
                   !.split_count = Some(NextSplitCount(props)),
                   !.last_split_depth = Some(d) ]

(* ------------------------------- Init --------------------------------- *)
InitLocals ==
    /\ pc = [i \in Inv |-> "idle"]
    /\ depth = [i \in Inv |-> 0]
    /\ target = [i \in Inv |-> NoProps]
    /\ newSegments = [i \in Inv |-> << >>]
    /\ tipSeen = [i \in Inv |-> 0]
    /\ readTip = [i \in Inv |-> 0]
    /\ output = NoOutput
    /\ applied = << >>
    /\ invoked = 0
    /\ tip = 1
    /\ origin = record
    /\ ops = [i \in Inv |-> << >>]
    /\ lastOps = << >>

\* a record begins with text set (or absent) and no segments
TextLens == { n \in 0..MaxTextLen : n % 7 = 0 \/ n \in { 10, 11 } }

Init ==
    /\ record \in { NoProps } \cup { Props(Some(Str(n)), None) : n \in TextLens }
    /\ InitLocals

\* the sequential driver of test/recurse.test.ts starts from a text, and
\* the Segment Engine from any sequence of segments
SeqTextLens == (0..MaxSegLen) \cup { 10 * Pow2(k) : k \in 1..MaxK }

RECURSIVE SegSeqs(_)
SegSeqs(n) ==
    IF n = 0 THEN { << >> }
    ELSE LET shorter == SegSeqs(n - 1) IN
         shorter \cup { Append(q, Str(m)) :
                          q \in { r \in shorter : Len(r) = n - 1 }, m \in 0..MaxSegLen }

SeqInit ==
    /\ record \in { NoProps }
           \cup { Props(Some(Str(n)), None) : n \in SeqTextLens }
           \cup { Props(Some(Str(n)), Some(<< >>)) : n \in 0..MaxSegLen }
           \cup { Props(None, Some(q)) : q \in SegSeqs(MaxInitSegs) }
    /\ InitLocals

(* ------------------------------ actions ------------------------------- *)
\* the invocation ends: its step-scoped state is gone
End(i, out, done) ==
    /\ pc' = [pc EXCEPT ![i] = "idle"]
    /\ output' = out
    /\ ops' = [ops EXCEPT ![i] = << >>]
    /\ lastOps' = OpNames(done)
    /\ depth' = [depth EXCEPT ![i] = 0]
    /\ target' = [target EXCEPT ![i] = NoProps]
    /\ newSegments' = [newSegments EXCEPT ![i] = << >>]
    /\ tipSeen' = [tipSeen EXCEPT ![i] = 0]
    /\ readTip' = [readTip EXCEPT ![i] = 0]

\* the segments seeded at lines 32-36 persisted on the path of lines 47-56
BeginPersists(i, d, cap) ==
    /\ pc[i] = "idle"
    /\ invoked < cap
    /\ invoked' = invoked + 1
    /\ LET segments == Working(record) IN
       IF AllDone(segments)
       THEN /\ End(i, DoneTrue, << Op(FETCH, tip) >>)
            /\ record' = [record EXCEPT !.segments = Some(segments)]
            /\ tip' = tip + 1
            /\ UNCHANGED << applied, origin >>
       ELSE /\ depth' = [depth EXCEPT ![i] = d]
            /\ target' = [target EXCEPT ![i] = record]
            /\ readTip' = [readTip EXCEPT ![i] = tip]
            /\ newSegments' = [newSegments EXCEPT ![i] = SplitRound(segments)]
            /\ ops' = [ops EXCEPT ![i] = << Op(FETCH, tip) >>]
            /\ pc' = [pc EXCEPT ![i] = "split"]
            /\ UNCHANGED << record, tip, tipSeen, output, applied, origin,
                            lastOps >>

\* lines 20-72: a job with recursion depth d starts, fetchTarget resolves
\* with the entity as the store holds it, the segments are derived and the
\* invocation returns done=true or splits and asks for the tip
Begin(i, d, cap) ==
    /\ pc[i] = "idle"
    /\ invoked < cap
    /\ invoked' = invoked + 1
    /\ LET segments == Working(record) IN
       IF AllDone(segments)
       THEN /\ End(i, DoneTrue, << Op(FETCH, tip) >>)
            /\ UNCHANGED << record, tip, applied, origin >>
       ELSE /\ depth' = [depth EXCEPT ![i] = d]
            /\ target' = [target EXCEPT ![i] = record]
            /\ readTip' = [readTip EXCEPT ![i] = tip]
            /\ newSegments' = [newSegments EXCEPT ![i] = SplitRound(segments)]
            /\ ops' = [ops EXCEPT ![i] = << Op(FETCH, tip) >>]
            /\ pc' = [pc EXCEPT ![i] = "split"]
            /\ UNCHANGED << record, tip, tipSeen, output, applied, origin,
                            lastOps >>

FetchTarget(i) == \E d \in 0..MaxDepth : Begin(i, d, MaxInvocations)

\* line 29: a job starts and fetchTarget rejects
FetchTargetFails(i) ==
    /\ pc[i] = "idle"
    /\ invoked < MaxInvocations
    /\ invoked' = invoked + 1
    /\ End(i, FetchError, << Op(FETCH, tip) >>)
    /\ UNCHANGED << record, tip, applied, origin >>

\* expect_tip taken from the entity fetched at line 29, not from the tip
\* fetched at line 75
GetTipReusesReadTip(i) ==
    /\ pc[i] = "split"
    /\ tipSeen' = [tipSeen EXCEPT ![i] = readTip[i]]
    /\ ops' = [ops EXCEPT ![i] = Append(@, Op(TIP, tip))]
    /\ pc' = [pc EXCEPT ![i] = "tipped"]
    /\ UNCHANGED << record, tip, depth, target, newSegments, output,
                    readTip, applied, invoked, origin, lastOps >>

\* lines 75-77: GET /entities/{id}/tip resolves with the current cid
GetTip(i) ==
    /\ pc[i] = "split"
    /\ tipSeen' = [tipSeen EXCEPT ![i] = tip]
    /\ ops' = [ops EXCEPT ![i] = Append(@, Op(TIP, tip))]
    /\ pc' = [pc EXCEPT ![i] = "tipped"]
    /\ UNCHANGED << record, tip, depth, target, newSegments, output,
                    readTip, applied, invoked, origin, lastOps >>

\* lines 79-81 left out and the PUT skipped: done=false without a write
GetTipFailsSwallowed(i) ==
    /\ pc[i] = "split"
    /\ End(i, DoneFalse, Append(ops[i], Op(TIP, tip)))
    /\ UNCHANGED << record, tip, applied, invoked, origin >>

\* lines 75-81: tipError or no tip
GetTipFails(i) ==
    /\ pc[i] = "split"
    /\ End(i, TipError, Append(ops[i], Op(TIP, tip)))
    /\ UNCHANGED << record, tip, applied, invoked, origin >>

\* line 88 left out: the PUT carries no expect_tip and is applied always
PutUnguarded(i) ==
    /\ pc[i] = "tipped"
    /\ record' = Updated(target[i], newSegments[i], depth[i])
    /\ tip' = tip + 1
    /\ applied' = Append(applied, tipSeen[i])
    /\ End(i, DoneFalse, Append(ops[i], Op(PUT, tipSeen[i])))
    /\ UNCHANGED << invoked, origin >>

\* lines 83-111: the store applies the PUT, expect_tip being its tip
PutApplied(i) ==
    /\ pc[i] = "tipped"
    /\ tipSeen[i] = tip
    /\ record' = Updated(target[i], newSegments[i], depth[i])
    /\ tip' = tip + 1
    /\ applied' = Append(applied, tipSeen[i])
    /\ End(i, DoneFalse, Append(ops[i], Op(PUT, tipSeen[i])))
    /\ UNCHANGED << invoked, origin >>

\* lines 98-100 left out: updateError is not looked at
PutConflictSwallowed(i) ==
    /\ pc[i] = "tipped"
    /\ tipSeen[i] # tip
    /\ End(i, DoneFalse, Append(ops[i], Op(PUT, tipSeen[i])))
    /\ UNCHANGED << record, tip, applied, invoked, origin >>

\* a rejected PUT answered by fetching the tip again
PutConflictRetries(i) ==
    /\ pc[i] = "tipped"
    /\ tipSeen[i] # tip
    /\ ops' = [ops EXCEPT ![i] = Append(@, Op(PUT, tipSeen[i]))]
    /\ pc' = [pc EXCEPT ![i] = "split"]
    /\ UNCHANGED << record, tip, depth, target, newSegments, tipSeen, output,
                    readTip, applied, invoked, origin, lastOps >>

\* lines 83-100: the store rejects the PUT, expect_tip not being its tip
PutConflict(i) ==
    /\ pc[i] = "tipped"
    /\ tipSeen[i] # tip
    /\ End(i, ConflictError, Append(ops[i], Op(PUT, tipSeen[i])))
    /\ UNCHANGED << record, tip, applied, invoked, origin >>

\* lines 83-100: the PUT fails otherwise
PutFails(i) ==
    /\ pc[i] = "tipped"
    /\ End(i, UpdateError, Append(ops[i], Op(PUT, tipSeen[i])))
    /\ UNCHANGED << record, tip, applied, invoked, origin >>

\* another writer of the store changes a property of the entity
OtherWriter ==
    /\ record.label < MaxLabel
    /\ record' = [record EXCEPT !.label = @ + 1]
    /\ tip' = tip + 1
    /\ UNCHANGED << pc, locals, output, applied, invoked, origin, lastOps >>

Next ==
    \/ \E i \in Inv : FetchTarget(i)
    \/ \E i \in Inv : FetchTargetFails(i)
    \/ \E i \in Inv : GetTip(i)
    \/ \E i \in Inv : GetTipFails(i)
    \/ \E i \in Inv : PutApplied(i)
    \/ \E i \in Inv : PutConflict(i)
    \/ \E i \in Inv : PutFails(i)
    \/ OtherWriter

Spec == Init /\ [][Next]_vars

\* test/recurse.test.ts: one invocation at a time, re-invoked by the driver,
\* no other writer and no failure of the store
SeqMaxInvocations == MaxK + 2

SeqFetchTarget == \E d \in 0..MaxDepth : Begin(1, d, SeqMaxInvocations)

SeqNext ==
    \/ SeqFetchTarget
    \/ GetTip(1)
    \/ PutApplied(1)

SeqSpec == SeqInit /\ [][SeqNext]_vars

\* the same driver invoking the worker directly: job.recurseDepth is 0
DirectFetchTarget == Begin(1, 0, SeqMaxInvocations)

DirectNext ==
    \/ DirectFetchTarget
    \/ GetTip(1)
    \/ PutApplied(1)

DirectSpec == SeqInit /\ [][DirectNext]_vars

\* the same driver on a record whose segments hold an entry that is not a
\* string, alone or next to a string
MalformedSeqs ==
    { << NotAString >> }
        \cup { << NotAString, Str(m) >> : m \in 0..MaxSegLen }
        \cup { << Str(m), NotAString >> : m \in 0..MaxSegLen }

MalformedInit ==
    /\ record \in { Props(None, Some(q)) : q \in MalformedSeqs }
                  \cup { Props(Some(Str(n)), Some(q)) :
                            n \in { 0, MaxSegLen }, q \in MalformedSeqs }
    /\ InitLocals

MalformedSpec == MalformedInit /\ [][SeqNext]_vars

\* concurrent invocations on a record that no one else modifies, the store
\* answering every request: one invocation more than in Spec, so that one
\* can be overtaken by two others
RaceMaxInvocations == MaxInvocations + 1

RaceFetchTarget(i) == \E d \in 0..MaxDepth : Begin(i, d, RaceMaxInvocations)

RaceNext ==
    \/ \E i \in Inv : RaceFetchTarget(i)
    \/ \E i \in Inv : GetTip(i)
    \/ \E i \in Inv : PutApplied(i)
    \/ \E i \in Inv : PutConflict(i)

RaceSpec == Init /\ [][RaceNext]_vars

(* ---------------------------- properties ------------------------------ *)
RECURSIVE MaxLen(_)
MaxLen(segments) ==
    IF segments = << >> THEN 0
    ELSE LET m == MaxLen(Tail(segments)) IN
         IF Len(Head(segments)) > m THEN Len(Head(segments)) ELSE m

\* the least k with L <= 10 * 2^k, which is ceil(log2(L / 10)) for L > 10
\* and 0 for L <= 10
RECURSIVE RoundsFrom(_, _)
RoundsFrom(L, k) == IF L <= 10 * Pow2(k) THEN k ELSE RoundsFrom(L, k + 1)
RoundsBound(L) == RoundsFrom(L, 0)

\* i takes the step that ends its PUT
PutEnds(i) == pc[i] = "tipped" /\ pc'[i] = "idle"

\* C1: sequential invocations started on a sequence whose longest segment
\* has length L apply at most ceil(log2(L / 10)) split rounds (none when
\* L <= 10); after that many rounds every segment has length <= 10, and
\* the invocation that follows reports done=true.
C1_TerminationBound ==
    LET bound == RoundsBound(MaxLen(Working(origin))) IN
    /\ Len(applied) <= bound
    /\ Len(applied) = bound => AllDone(Working(record))
    /\ (pc[1] = "idle" /\ invoked > Len(applied)) =>
           /\ output = DoneTrue
           /\ Len(applied) = bound

C1_Witness ==
    /\ IsSome(origin.segments)
    /\ Len(Get(origin.segments)) = 2
    /\ RoundsBound(MaxLen(Working(origin))) = 2
    /\ Len(applied) = 2
    /\ output = DoneTrue

\* C2: a PUT rejected for its expect_tip ends the invocation in an Error,
\* no Output being returned, and leaves the record as it was.
C2_RejectedWrite ==
    [][ \A i \in Inv :
          (PutEnds(i) /\ tipSeen[i] # tip) =>
             /\ output' \in Errors
             /\ record' = record
             /\ tip' = tip ]_vars

C2_Witness ==
    /\ output = ConflictError
    /\ IsSome(record.segments)

\* C3: a PUT of an invocation is applied only if the record was not
\* modified since the invocation fetched it.
C3_NoLostUpdate ==
    [][ \A i \in Inv :
          (PutEnds(i) /\ output' = DoneFalse) => readTip[i] = tip ]_vars

\* C4: of the invocations that write on one revision of the record at most
\* one has its PUT applied, and an invocation whose PUT comes after the
\* applied one ends in an Error, not in an Output.
C4_OneWriterPerRevision ==
    [][ \A i \in Inv :
          PutEnds(i) =>
             LET lost == \E k \in 1..Len(applied) : applied[k] = tipSeen[i] IN
             /\ lost => /\ output' \in Errors
                         /\ applied' = applied
                         /\ record' = record
             /\ output' = DoneFalse =>
                         /\ ~lost
                         /\ applied' = Append(applied, tipSeen[i])
             /\ output' \in Errors \cup { DoneFalse } ]_vars

C4_Witness ==
    /\ output = ConflictError
    /\ Len(applied) = 1
    /\ tip = 2

\* the record's persisted segments all have length <= 10
Stable(props) == IsSome(props.segments) /\ AllDone(Get(props.segments))

\* C5: once the persisted segments all have length <= 10, no step of an
\* invocation changes the record.
C5_StableNotMutated ==
    [][ (Stable(record) /\ \E i \in Inv : pc'[i] # pc[i]) =>
           record' = record ]_vars

\* C6: once an invocation has returned done=true, and the record being
\* modified by nothing else, every further invocation fetches no tip and
\* issues no PUT, leaves the record as it is and returns done=true again.
C6_TerminalIdempotent ==
    [][ output = DoneTrue =>
          /\ record' = record
          /\ tip' = tip
          /\ applied' = applied
          /\ pc' = pc
          /\ output' = DoneTrue ]_vars

\* two invocations have returned done=true
C6_Witness ==
    /\ output = DoneTrue
    /\ pc[1] = "idle"
    /\ invoked = Len(applied) + 2
    /\ Len(applied) >= 1

\* n segments, each of length len
Uniform(segments, n, len) ==
    /\ Len(segments) = n
    /\ \A k \in 1..Len(segments) : Len(segments[k]) = len

\* C7: on a text of length 10 * 2^k and no segments, sequential invocations
\* make k split rounds, each returning done=false, the j-th leaving 2^j
\* segments of length 10 * 2^(k-j) and split_count = j; invocation k+1
\* returns done=true on 2^k segments of length 10 with split_count = k.
C7_PowerOfTwoText ==
    \A k \in 1..MaxK :
       ( /\ origin.segments = None
         /\ IsSome(origin.text)
         /\ Len(Get(origin.text)) = 10 * Pow2(k) ) =>
          LET j == Len(applied) IN
          /\ j <= k
          /\ j = 0 => record = origin
          /\ j >= 1 => /\ IsSome(record.segments)
                        /\ Uniform(Get(record.segments), Pow2(j), 10 * Pow2(k - j))
                        /\ record.split_count = Some(j)
          /\ pc[1] = "idle" =>
                /\ invoked <= k => /\ j = invoked
                                    /\ output = IF invoked = 0 THEN NoOutput ELSE DoneFalse
                /\ invoked > k => /\ j = k
                                   /\ output = DoneTrue

C7_Witness ==
    /\ origin = Props(Some(Str(320)), None)
    /\ output = DoneTrue
    /\ invoked = 6
    /\ Uniform(Get(record.segments), 32, 10)
    /\ record.split_count = Some(5)

\* C8: a record without segments whose text is absent, empty or of length
\* <= 10 is never written: every invocation that fetches it returns
\* done=true, and segments and split_count stay absent.
C8_SmallTextNeverWritten ==
    ( /\ origin.segments = None
      /\ (IsSome(origin.text) => Len(Get(origin.text)) <= 10) ) =>
        /\ record.segments = None
        /\ record.split_count = None
        /\ applied = << >>
        /\ output \in { NoOutput, DoneTrue, FetchError }
        /\ \A i \in Inv : pc[i] = "idle"

C8_Witness ==
    /\ origin = Props(Some(Str(7)), None)
    /\ output = DoneTrue
    /\ invoked = 2
    /\ record.label = 1

RECURSIVE SumLen(_)
SumLen(segments) ==
    IF segments = << >> THEN 0
    ELSE Len(Head(segments)) + SumLen(Tail(segments))

\* C9: the segments a round puts out have together the length of the
\* segments it was given.
C9_LengthPreserved ==
    \A i \in Inv :
       pc[i] # "idle" => SumLen(newSegments[i]) = SumLen(Working(target[i]))

C9_Witness ==
    /\ pc[1] = "split"
    /\ Len(Working(target[1])) = 2
    /\ Len(newSegments[1]) = 4
    /\ SumLen(newSegments[1]) = 36

\* floor(L / 2) and ceil(L / 2)
FloorHalf(L) == CHOOSE h \in 0..L : 2 * h <= L /\ L < 2 * h + 2
CeilHalf(L) == CHOOSE h \in 0..L : L <= 2 * h /\ 2 * h < L + 2

\* out is what a round makes of the segments, taken in order
RECURSIVE Halved(_, _)
Halved(segments, out) ==
    IF segments = << >> THEN out = << >>
    ELSE LET s == Head(segments)
             L == Len(s)
         IN  IF L <= 10
             THEN /\ Len(out) >= 1
                  /\ out[1] = s
                  /\ Halved(Tail(segments), Tail(out))
             ELSE /\ Len(out) >= 2
                  /\ out[1] \o out[2] = s
                  /\ Len(out[1]) = FloorHalf(L)
                  /\ Len(out[2]) = CeilHalf(L)
                  /\ L % 2 = 0 => Len(out[1]) = Len(out[2])
                  /\ Halved(Tail(segments), SubSeq(out, 3, Len(out)))

\* C10: a round cuts every segment of length L > 10 at floor(L / 2) into
\* two contiguous halves of lengths floor(L / 2) and ceil(L / 2), equal for
\* even L, and leaves every segment of length <= 10 uncut.
C10_SplitAtMidpoint ==
    \A i \in Inv :
       pc[i] # "idle" => Halved(Working(target[i]), newSegments[i])

\* an odd segment is cut beside one left uncut
C10_Witness ==
    /\ pc[1] = "split"
    /\ Len(Working(target[1])) = 2
    /\ Len(Working(target[1])[1]) = 9
    /\ Len(Working(target[1])[2]) = 23
    /\ Len(newSegments[1]) = 3

\* the working sequence that a record's properties stand for
Derived(props) ==
    LET text == IF props.text = None THEN << >> ELSE props.text[1] IN
    IF props.segments # None /\ props.segments[1] # << >>
    THEN props.segments[1]
    ELSE IF text # << >> THEN << text >> ELSE << >>

\* split_count as read, 0 when the record has none
ReadCount(props) ==
    IF props.split_count = None THEN 0 ELSE props.split_count[1]

\* C11: an invocation that read a record with a segment longer than 10 and
\* whose write is applied has made exactly one split round: the persisted
\* segments are one round of the segments it read, split_count is the
\* split_count it read (or 0) plus one, last_split_depth is the depth it
\* was given, and it returns done=false.
C11_OneSplitRound ==
    [][ \A i \in Inv :
          (PutEnds(i) /\ applied' # applied) =>
              /\ MaxLen(Derived(target[i])) > 10
              /\ IsSome(record'.segments)
              /\ Halved(Derived(target[i]), Get(record'.segments))
              /\ record'.split_count = Some(ReadCount(target[i]) + 1)
              /\ record'.last_split_depth = Some(depth[i])
              /\ output' = DoneFalse ]_vars

C11_Witness ==
    /\ output = DoneFalse
    /\ Len(applied) = 2
    /\ record.split_count = Some(2)
    /\ record.last_split_depth = Some(1)
    /\ Len(Get(record.segments)) = 3

\* a job starts in this step
Started == invoked' = invoked + 1

\* C12: the result is decided by the record the invocation read: done=true
\* exactly when every segment of the working sequence has length <= 10,
\* done=false exactly when a segment is longer than 10 and the invocation's
\* write is applied.
C12_StepResult ==
    [][ /\ Started =>
              LET short == MaxLen(Derived(record)) <= 10 IN
              /\ short => pc' = pc
              /\ pc' = pc =>
                     /\ output' \in { DoneTrue, FetchError }
                     /\ output' = DoneTrue => short
              /\ pc' # pc => ~short /\ output' = output
        /\ \A i \in Inv :
              /\ PutEnds(i) =>
                     /\ MaxLen(Derived(target[i])) > 10
                     /\ output' = DoneFalse <=> applied' # applied
              /\ (pc[i] # "idle" /\ pc'[i] = "idle") => output' # DoneTrue
              /\ (pc[i] = "split" /\ pc'[i] = "idle") => output' # DoneFalse
      ]_vars

C12_Witness ==
    /\ output = DoneTrue
    /\ invoked = 2
    /\ Len(applied) = 1
    /\ pc = [i \in Inv |-> "idle"]

\* j rounds of the Segment Engine
RECURSIVE Rounds(_, _)
Rounds(segments, j) ==
    IF j = 0 THEN segments ELSE Rounds(SplitRound(segments), j - 1)

\* C13: the recursion depths given to the invocations have no influence
\* but on last_split_depth: whatever depths a sequential run is given, the
\* persisted segments, split_count, the results returned and the number of
\* split rounds are the same function of the record it began with and of
\* the number of invocations made.
C13_DepthNonInterference ==
    LET w == Working(origin)
        bound == RoundsBound(MaxLen(w))
        ended == IF pc[1] = "idle" THEN invoked ELSE invoked - 1
        rounds == IF ended <= bound THEN ended ELSE bound
    IN  /\ Len(applied) = rounds
        /\ record.text = origin.text
        /\ record.label = origin.label
        /\ rounds = 0 => record = origin
        /\ rounds > 0 =>
               /\ record.segments = Some(Rounds(w, rounds))
               /\ record.split_count = Some(ReadCount(origin) + rounds)
               /\ record.last_split_depth \in { Some(d) : d \in 0..MaxDepth }
        /\ pc[1] = "idle" =>
               output = IF ended = 0 THEN NoOutput
                        ELSE IF ended <= bound THEN DoneFalse ELSE DoneTrue
        /\ pc[1] # "idle" => newSegments[1] = Rounds(w, rounds + 1)

C13_Witness ==
    /\ output = DoneTrue
    /\ Len(applied) = 3
    /\ record.last_split_depth = Some(1)
    /\ record.split_count = Some(3)

\* C14: when every invocation is made directly, with depth 0, every applied
\* split write leaves last_split_depth = 0, however many rounds have run:
\* last_split_depth does not follow split_count.
C14_DirectDepthZero ==
    /\ depth[1] = 0
    /\ Len(applied) >= 1 =>
           /\ record.last_split_depth = Some(0)
           /\ record.split_count = Some(Len(applied))

C14_Witness ==
    /\ Len(applied) = 3
    /\ record.split_count = Some(3)
    /\ record.last_split_depth = Some(0)
    /\ Uniform(Get(record.segments), 8, 10)

\* an invocation ends in this step
Ends == (Started /\ pc' = pc) \/ \E i \in Inv : pc[i] # "idle" /\ pc'[i] = "idle"

\* C15: an invocation whose fetch of the record or of the tip fails ends in
\* an error before any write: it has sent no PUT, the record and its
\* revision are as they were, and no result is returned.
C15_FetchFailureAborts ==
    [][ /\ (Ends /\ output' \in { FetchError, TipError }) =>
              /\ record' = record
              /\ tip' = tip
              /\ applied' = applied
              /\ \A k \in 1..Len(lastOps') : lastOps'[k] # PUT
        /\ (Started /\ pc' = pc /\ output' # DoneTrue) =>
              /\ output' = FetchError
              /\ lastOps' = << FETCH >>
        /\ \A i \in Inv : (pc[i] = "split" /\ pc'[i] = "idle") =>
              /\ output' = TipError
              /\ lastOps' = << FETCH, TIP >>
      ]_vars

C15_Witness ==
    /\ output = TipError
    /\ lastOps = << FETCH, TIP >>
    /\ invoked = 2
    /\ record = origin
    /\ tip = 1

\* C16: on a record whose segments hold an entry that is not a string the
\* invocation fails with an error and leaves the record as it is: it
\* writes nothing and never returns done=false.
C16_MalformedIsFatal ==
    /\ record = origin
    /\ applied = << >>
    /\ output # DoneFalse
    /\ (invoked > 0 /\ pc[1] = "idle") => output \in Errors

\* done is the beginning of the operations fetchTarget, GET tip, PUT
InOrder(done) ==
    /\ Len(done) <= 3
    /\ \A k \in 1..Len(done) : done[k] = << FETCH, TIP, PUT >>[k]

\* C17 as stated: no invocation performs more than two operations of the
\* store, one read of the state and one conditional write.
C17_TwoRoundTrips == Len(lastOps) <= 2

\* C17: no invocation performs more than three operations of the store:
\* the read of the state, the read of the tip and the conditional write,
\* in this order, each at most once; an invocation that returns done=true
\* has performed the read of the state only.
C17_ThreeRoundTrips ==
    /\ InOrder(lastOps)
    /\ \A i \in Inv : InOrder(OpNames(ops[i])) /\ Len(ops[i]) <= 2
    /\ output = DoneTrue => lastOps = << FETCH >>
    /\ output \in { DoneFalse, ConflictError, UpdateError } =>
           lastOps = << FETCH, TIP, PUT >>

C17_Witness ==
    /\ output = DoneFalse
    /\ lastOps = << FETCH, TIP, PUT >>
    /\ Len(applied) = 1

\* C18: on the path that writes, the token supplied with the PUT is the one
\* returned by a fetch of the tip made after the read of the record and
\* after the split has been computed, and directly before the PUT, the
\* invocation performing no operation of the store in between; the
\* revision seen by the read of the record is not reused; an invocation
\* that returns done=true fetches no tip.
C18_TokenOrdering ==
    [][ /\ \A i \in Inv :
              /\ (pc[i] = "split" /\ pc'[i] = "tipped") =>
                     /\ ops[i] = << Op(FETCH, readTip[i]) >>
                     /\ newSegments[i] = SplitRound(Working(target[i]))
                     /\ newSegments'[i] = newSegments[i]
                     /\ ops'[i] = << Op(FETCH, readTip[i]), Op(TIP, tip) >>
              /\ PutEnds(i) =>
                     /\ Len(ops[i]) = 2
                     /\ ops[i][2].op = TIP
                     /\ tipSeen[i] = ops[i][2].cid
                     /\ lastOps' = << FETCH, TIP, PUT >>
                     /\ applied' # applied =>
                            applied' = Append(applied, ops[i][2].cid)
                     /\ applied' # applied => ops[i][2].cid = tip
                     /\ output' = ConflictError => ops[i][2].cid # tip
        /\ (Ends /\ output' = DoneTrue) => lastOps' = << FETCH >>
      ]_vars

C18_Witness ==
    /\ pc[1] = "tipped"
    /\ readTip[1] = 1
    /\ ops[1] = << Op(FETCH, 1), Op(TIP, 2) >>
    /\ tipSeen[1] = 2

\* how many of the first k segments are longer than 10
Longs(w, k) == Cardinality({ j \in 1..k : Len(w[j]) > 10 })

\* C19: in one round every segment is split at most once and the order is
\* kept: the output is, segment by segment, the segment itself when its
\* length is <= 10 and its two halves when it is longer; a half is not
\* split again in the same round, even when longer than 10; the number of
\* splits made is the number of segments longer than 10.
C19_RoundSplitsOnce ==
    \A i \in Inv :
       pc[i] # "idle" =>
           LET w == Working(target[i])
               out == newSegments[i]
           IN  /\ SplitsMade(w) = Longs(w, Len(w))
               /\ Len(out) = Len(w) + Longs(w, Len(w))
               /\ \A k \in 1..Len(w) :
                     LET p == k + Longs(w, k - 1) IN
                     IF Len(w[k]) <= 10
                     THEN out[p] = w[k]
                     ELSE /\ out[p] \o out[p + 1] = w[k]
                          /\ Len(out[p + 1]) - Len(out[p]) \in { 0, 1 }

C19_Witness ==
    /\ pc[1] = "split"
    /\ Len(Working(target[1])) = 2
    /\ Len(Working(target[1])[1]) <= 10
    /\ Len(Working(target[1])[2]) > 20
    /\ Len(newSegments[1]) = 3
    /\ Len(newSegments[1][3]) > 10

\* C20: the working sequence is the record's segments when they are present
\* and not empty; when they are absent or the empty list it is the one
\* segment text if text is a string that is not empty, and the empty
\* sequence otherwise; deriving it writes nothing.
C20_WorkingSequence ==
    [][ Started =>
          LET w == Derived(record) IN
          /\ record' = record
          /\ tip' = tip
          /\ applied' = applied
          /\ IF MaxLen(w) <= 10
             THEN pc' = pc /\ output' = DoneTrue /\ lastOps' = << FETCH >>
             ELSE /\ pc'[1] = "split"
                  /\ Working(target'[1]) = w
                  /\ Halved(w, newSegments'[1]) ]_vars

C20_Witness ==
    /\ origin = Props(Some(Str(MaxSegLen)), Some(<< >>))
    /\ pc[1] = "split"
    /\ Len(newSegments[1]) = 2
    /\ record = origin
    /\ tip = 1

\* C21: an invocation sends at most one PUT; when the PUT is rejected the
\* invocation performs no further operation of the store, neither a second
\* fetch of the tip nor a second PUT, and ends with an error; a retry is a
\* new invocation.
C21_NoRetry ==
    [][ \A i \in Inv :
          /\ (pc[i] = "tipped" /\ pc'[i] # "tipped") =>
                 /\ pc'[i] = "idle"
                 /\ ops'[i] = << >>
                 /\ lastOps' = << FETCH, TIP, PUT >>
                 /\ tipSeen[i] # tip =>
                        /\ output' \in Errors
                        /\ record' = record
                        /\ tip' = tip
                        /\ applied' = applied
                        /\ invoked' = invoked
          /\ \A k \in 1..Len(ops[i]) : ops[i][k].op # PUT
      ]_vars

C21_Witness ==
    /\ output = ConflictError
    /\ lastOps = << FETCH, TIP, PUT >>
    /\ pc = [i \in Inv |-> "idle"]
    /\ applied = << >>
    /\ tip = 2
    /\ invoked = 1

\* the number of persisted segments, 0 when there are none
SegmentCount(props) ==
    IF props.segments = None THEN 0 ELSE Len(props.segments[1])

\* C22: in every interleaving of invocations on one record, no write
\* lowers the persisted split_count or the number of persisted segments.
C22_MonotonicProgress ==
    [][ /\ ReadCount(record') >= ReadCount(record)
        /\ SegmentCount(record') >= SegmentCount(record) ]_vars

\* the segments written one after the other
RECURSIVE Concat(_)
Concat(segments) ==
    IF segments = << >> THEN << >>
    ELSE Head(segments) \o Concat(Tail(segments))

\* C23: on a record that begins with a text and no segments and that only
\* invocations of processJob modify, whenever segments is present the
\* persisted segments written one after the other are the text, in every
\* interleaving of the invocations.
C23_TextPreserved ==
    ( origin.segments = None /\ origin.text # None ) =>
        /\ record.text = origin.text
        /\ record.segments # None =>
               Concat(record.segments[1]) = origin.text[1]

C23_Witness ==
    /\ Len(applied) = 3
    /\ record.split_count = Some(1)
    /\ Len(origin.text[1]) = 21
    /\ SegmentCount(record) = 2

\* C24: on a record that begins with a text and no segments or split_count
\* and that only invocations of processJob modify, the persisted segments
\* are what split_count split rounds make of the one segment text, in every
\* reachable state and every interleaving of the invocations.
C24_StateConsistent ==
    ( origin.segments = None /\ origin.split_count = None
          /\ origin.text # None ) =>
        IF record.segments = None
        THEN record.split_count = None
        ELSE /\ record.split_count # None
             /\ record.segments[1]
                    = Rounds(<< origin.text[1] >>, record.split_count[1])

C24_Witness ==
    /\ applied = << 1, 2 >>
    /\ record.split_count = Some(1)
    /\ Len(origin.text[1]) = 21
    /\ record.segments = Some(SplitRound(<< origin.text[1] >>))
    /\ pc = [i \in Inv |-> "idle"]

\* C25: an applied split write changes segments, split_count and
\* last_split_depth and nothing else: every other property, text and label
\* among them, has after the write the value the invocation read with the
\* record.
C25_WriteFrame ==
    [][ \A i \in Inv :
          (PutEnds(i) /\ applied' # applied) =>
              /\ record'.text = target[i].text
              /\ record'.label = target[i].label
              /\ DOMAIN record' = DOMAIN target[i] ]_vars

C25_Witness ==
    /\ output = DoneFalse
    /\ Len(applied) = 1
    /\ tip = 3
    /\ record.label = 0
    /\ record.text = origin.text
    /\ record.split_count = Some(1)

\* C26: an invocation that sends a write, and so every invocation that
\* returns done=false, has made at least one split in its round: the
\* segments it writes are more than the segments of the working sequence it
\* read, and never the same sequence.
C26_ProgressPerWrite ==
    [][ \A i \in Inv :
          /\ pc'[i] # "idle" =>
                 LET w == Derived(target'[i]) IN
                 /\ SplitsMade(w) >= 1
                 /\ Len(newSegments'[i]) = Len(w) + SplitsMade(w)
                 /\ newSegments'[i] # w
          /\ (PutEnds(i) /\ output' = DoneFalse) =>
                 /\ applied' # applied
                 /\ SegmentCount(record') > Len(Derived(target[i]))
                 /\ record'.segments # target[i].segments
                 /\ record'.segments # Some(Derived(target[i])) ]_vars

C26_Witness ==
    /\ output = DoneFalse
    /\ pc[1] = "idle"
    /\ origin.segments # None
    /\ Len(Derived(origin)) = 2
    /\ SegmentCount(record) = 3
    /\ Len(applied) = 1

====
